---- MODULE Spec2Model ----
(***************************************************************************)
(* Model of LaserScanToPointcloud (src/src/laserscan_to_pointcloud.cpp):   *)
(* the polar-to-cartesian projection cache, the scan integration with      *)
(* pose interpolation and the recovery-frame path.                         *)
(*                                                                         *)
(* Numbers.  Floating point values are modelled on an exact lattice: a     *)
(* value is either NaN or an integer.  Angles are counted in quarter turns *)
(* (pi/2), so that cos and sin are exact.  Rigid transforms are a rotation *)
(* about z by a number of quarter turns followed by a translation.         *)
(* size_t is modelled with SizeBits bits.                                  *)
(*                                                                         *)
(* The variable last records the last call (its scan, return value, sink   *)
(* callbacks and pose queries); the other variables are the fields of the  *)
(* object.  The pose provider (tf_collector_) is the environment: every    *)
(* query either fails or returns poses drawn from a small set.             *)
(***************************************************************************)
EXTENDS Integers, Sequences, FiniteSets, TLC

\* ------------------------------------------------------------------ bounds
MaxN == 3
MaxScans == 2
SizeBits == 8

SizeModulus == 2 ^ SizeBits

RECURSIVE Gcd(_, _)
Gcd(a, b) == IF b = 0 THEN a ELSE Gcd(b, a % b)

RECURSIVE LcmUpTo(_)
LcmUpTo(n) == IF n <= 1 THEN 1 ELSE LET l == LcmUpTo(n - 1) IN (l * n) \div Gcd(l, n)

\* translations are multiples of Scale, so that every fraction i/(N-1) of a
\* translation difference stays on the lattice
Scale == LcmUpTo(MaxN - 1)

\* ------------------------------------------------------- floating point
F(v) == [nan |-> FALSE, v |-> v]
NaN == [nan |-> TRUE, v |-> 0]

FAdd(a, b) == IF a.nan \/ b.nan THEN NaN ELSE F(a.v + b.v)
FMul(a, b) == IF a.nan \/ b.nan THEN NaN ELSE F(a.v * b.v)
FGt(a, b) == ~a.nan /\ ~b.nan /\ a.v > b.v
FLt(a, b) == ~a.nan /\ ~b.nan /\ a.v < b.v
isfinite(a) == ~a.nan

\* std::cos / std::sin on the quarter-turn lattice
Cos(a) == CASE a % 4 = 0 -> 1 [] a % 4 = 1 -> 0 [] a % 4 = 2 -> -1 [] OTHER -> 0
Sin(a) == CASE a % 4 = 0 -> 0 [] a % 4 = 1 -> 1 [] a % 4 = 2 -> 0 [] OTHER -> -1

\* ------------------------------------------------------------ tf2 types
Vector3(x, y, z) == <<x, y, z>>
ZeroVector == Vector3(F(0), F(0), F(0))
Transform(rot, origin) == [rot |-> rot % 4, origin |-> origin]
Identity == Transform(0, ZeroVector)

\* tf2::Transform::operator*(Vector3): basis * v + origin, the basis being the
\* rotation matrix of rot quarter turns about z
TransformPoint(t, p) ==
    LET c == F(Cos(t.rot))
        s == F(Sin(t.rot))
        ms == F(0 - Sin(t.rot))
    IN Vector3(FAdd(FAdd(FAdd(FMul(c, p[1]), FMul(ms, p[2])), FMul(F(0), p[3])), t.origin[1]),
               FAdd(FAdd(FAdd(FMul(s, p[1]), FMul(c, p[2])), FMul(F(0), p[3])), t.origin[2]),
               FAdd(FAdd(FAdd(FMul(F(0), p[1]), FMul(F(0), p[2])), FMul(F(1), p[3])), t.origin[3]))

\* tf2::Transform::operator*(Transform)
TransformMul(a, b) == Transform(a.rot + b.rot, TransformPoint(a, b.origin))

\* tf2::Vector3::setInterpolate3(v0, v1, rt) with rt = num/den (rt = 0 when
\* num = 0): s = 1 - rt; s * v0 + rt * v1
Lerp1(a, b, num, den) ==
    IF a.nan \/ b.nan THEN NaN
    ELSE IF num = 0 THEN a
    ELSE F(((den - num) * a.v + num * b.v) \div den)
setInterpolate3(v0, v1, num, den) ==
    Vector3(Lerp1(v0[1], v1[1], num, den), Lerp1(v0[2], v1[2], num, den), Lerp1(v0[3], v1[3], num, den))

\* signed shortest rotation from q0 to q1 in quarter turns (half turns excluded
\* from the inputs: their direction depends on the quaternions' signs)
ShortestDiff(q0, q1) == LET d == (q1 - q0) % 4 IN IF d = 3 THEN -1 ELSE d
\* tf2::slerp(q0, q1, t) with t = num/den
slerp(q0, q1, num, den) ==
    IF num = 0 THEN q0 ELSE (q0 + (ShortestDiff(q0, q1) * num) \div den) % 4

\* ------------------------------------------------------------ the inputs
TargetFrame == "map"
SensorFrame == "laser"
RecoveryFrames == {"", "odom"}

\* sensor limits of the scans (range_min, range_max), and the constructor's
\* cutoff percentages: the effective window is (RangeMin * MinPct, RangeMax * MaxPct)
RangeMins == {1}
RangeMaxs == {4}
MinPcts == {2}
MaxPcts == {1}
\* at the lower cutoff, inside the window, at the upper cutoff
RangeValues == {F(2), F(3), F(4)}
AngleMins == {0, 1}
AngleIncrements == {1}
TimeIncrements == {2}
Stamps == {10}

Intensities(n) == IF n = 0 THEN <<>> ELSE <<F(9)>>

\* short scans with ranges that are not a number
NonFiniteRanges ==
    { r \in UNION { [1..n -> {F(3), NaN}] : n \in 1..2 } : \E i \in DOMAIN r : r[i] = NaN }
\* every combination of range values for scans of up to 3 samples; longer scans
\* have at most one sample on a cutoff
ScanRanges ==
    { r \in UNION { [1..n -> RangeValues] : n \in 0..MaxN } :
        Len(r) <= 3 \/ Cardinality({ i \in DOMAIN r : r[i] # F(3) }) <= 1 }
    \cup NonFiniteRanges

LaserScans ==
    { [ranges |-> r, angle_min |-> am, angle_increment |-> ai, range_min |-> F(rmin),
       range_max |-> F(rmax), time_increment |-> ti, stamp |-> st, frame_id |-> SensorFrame,
       intensities |-> Intensities(Len(r))] :
        r \in ScanRanges,
        am \in AngleMins, ai \in AngleIncrements, rmin \in RangeMins, rmax \in RangeMaxs,
        ti \in TimeIncrements, st \in Stamps }

\* one scan of every geometry: the matrix update reads no range value
GeometryScans == { s \in LaserScans : \A i \in DOMAIN s.ranges : s.ranges[i] = F(3) }

\* poses the transform tree can hold
PoseA == Transform(1, Vector3(F(Scale), F(0), F(0)))
PoseB == Transform(0, Vector3(F(0), F(2 * Scale), F(Scale)))
PoseNaN == Transform(0, Vector3(NaN, F(0), F(0)))
RecoveryPose == Transform(1, Vector3(F(0), F(3 * Scale), F(0)))
RefreshedRecoveryPose == Transform(3, Vector3(F(5 * Scale), F(0), F(0)))

\* ------------------------------------- PoseProvider (tf_collector_) model
\* A query's outcome is the sequence of transforms found; <<>> is NotAvailable.
LookupOutcomes == {<<>>, <<Identity>>, <<PoseA>>, <<PoseNaN>>}
SampleOutcomes(n) ==
    {<<>>, <<PoseA>>, <<Identity, Identity>>, <<Identity, PoseB>>, <<PoseB, PoseNaN>>}
    \cup (IF n <= 2 THEN {<<Identity, PoseA>>} ELSE {})
RefreshOutcomes == {<<>>, <<RefreshedRecoveryPose>>}
RecoveryLookupOutcomes == {<<>>, <<PoseA>>}
RecoverySampleOutcomes(n) == {<<>>, <<PoseA>>, <<Identity, PoseB>>}

\* TFCollector::lookForTransform(out, target, source, time, timeout): on
\* success the transform is written to out, on failure out is left alone
lookForTransform(out, outcome) ==
    [ok |-> outcome # <<>>, transform |-> IF outcome # <<>> THEN outcome[1] ELSE out]
\* TFCollector::collectTFs(target, source, start, end, 2, collected, timeout)
collectTFs(collected, outcome) ==
    [ok |-> outcome # <<>>, tfs |-> collected \o outcome]

Query(op, target, source, from, to) ==
    [op |-> op, target |-> target, source |-> source, from |-> from, to |-> to]

\* ------------------------------------------------------------- the state
VARIABLES
    interpolate_scans_,
    min_range_cutoff_percentage_offset_,
    max_range_cutoff_percentage_offset_,
    polar_to_cartesian_matrix_,
    polar_to_cartesian_matrix_angle_min_,
    polar_to_cartesian_matrix_angle_max_,
    polar_to_cartesian_matrix_angle_increment_,
    number_of_pointclouds_created_,
    number_of_points_in_cloud_,
    number_of_scans_assembled_in_current_pointcloud_,
    recovery_frame_,
    recovery_to_target_frame_transform_,
    last

vars == <<interpolate_scans_, min_range_cutoff_percentage_offset_,
          max_range_cutoff_percentage_offset_, polar_to_cartesian_matrix_,
          polar_to_cartesian_matrix_angle_min_, polar_to_cartesian_matrix_angle_max_,
          polar_to_cartesian_matrix_angle_increment_, number_of_pointclouds_created_,
          number_of_points_in_cloud_, number_of_scans_assembled_in_current_pointcloud_,
          recovery_frame_, recovery_to_target_frame_transform_, last>>

\* the record of the last call: the operation, its scan and return value, the
\* sink callbacks and pose queries it issued, the poses the provider returned,
\* whether the lookup of line 95 succeeded and the recovery transform stored
\* when the call began, the return value of the matrix update and, for a call
\* of the matrix update, the cached geometry (columns, angle_min_,
\* angle_increment_) when the call began
EmptyScan == CHOOSE s \in LaserScans : s.ranges = <<>>
NoCall == [op |-> "none", scan |-> EmptyScan, ret |-> FALSE, callbacks |-> <<>>,
           queries |-> <<>>, recovered |-> FALSE, returned_tfs |-> <<>>, refreshed |-> FALSE,
           stored_before |-> Identity, updated |-> FALSE,
           geometry_before |-> <<0, F(0), 0>>]

\* the matrix has two rows (cos, sin) and cols() columns
Matrix(c, s) == [cos |-> c, sin |-> s]
cols(m) == Len(m.cos)

CachedGeometry ==
    <<cols(polar_to_cartesian_matrix_), polar_to_cartesian_matrix_angle_min_,
      polar_to_cartesian_matrix_angle_increment_>>

\* The constructor leaves recovery_to_target_frame_transform_ without a value; it
\* is read only after setRecoveryFrame has set it together with a frame name.
Init ==
    /\ interpolate_scans_ \in BOOLEAN
    /\ min_range_cutoff_percentage_offset_ \in MinPcts
    /\ max_range_cutoff_percentage_offset_ \in MaxPcts
    /\ polar_to_cartesian_matrix_ = Matrix(<<>>, <<>>)
    /\ polar_to_cartesian_matrix_angle_min_ = F(0)
    /\ polar_to_cartesian_matrix_angle_max_ = F(0)
    /\ polar_to_cartesian_matrix_angle_increment_ = 0
    /\ number_of_pointclouds_created_ = 0
    /\ number_of_points_in_cloud_ = 0
    /\ number_of_scans_assembled_in_current_pointcloud_ = 0
    /\ recovery_frame_ = ""
    /\ recovery_to_target_frame_transform_ = Identity
    /\ last = NoCall

\* ------------------------------------------- the projection matrix cache
\* the loop of lines 58-63: column point_pos holds cos and sin of
\* angle_min + point_pos * angle_increment
RECURSIVE FillMatrix(_, _, _, _, _)
FillMatrix(m, current_angle, angle_increment, point_pos, number_of_scan_points) ==
    IF point_pos < number_of_scan_points
    THEN CHOOSE filled \in
           { FillMatrix(next, current_angle + angle_increment, angle_increment, point_pos + 1,
                        number_of_scan_points) :
               next \in {Matrix(Append(m.cos, F(Cos(current_angle))),
                                Append(m.sin, F(Sin(current_angle))))} } :
           TRUE
    ELSE m

\* (mutant) the matrix is rebuilt only when it has too few columns
MatrixIsStaleOnlyWhenSmaller(m, laser_scan) == cols(m) < Len(laser_scan.ranges)

\* the condition of line 41: only the number of columns is compared
MatrixIsStale(m, laser_scan) == cols(m) # Len(laser_scan.ranges)

\* updatePolarToCartesianProjectionMatrix: the return value and the fields after it
updatePolarToCartesianProjectionMatrix(laser_scan) ==
    IF MatrixIsStale(polar_to_cartesian_matrix_, laser_scan)
    THEN [ret |-> TRUE,
          matrix |-> FillMatrix(Matrix(<<>>, <<>>), laser_scan.angle_min,
                                laser_scan.angle_increment, 0, Len(laser_scan.ranges)),
          angle_min |-> laser_scan.range_min,
          angle_max |-> laser_scan.range_max,
          angle_increment |-> laser_scan.angle_increment]
    ELSE [ret |-> FALSE,
          matrix |-> polar_to_cartesian_matrix_,
          angle_min |-> polar_to_cartesian_matrix_angle_min_,
          angle_max |-> polar_to_cartesian_matrix_angle_max_,
          angle_increment |-> polar_to_cartesian_matrix_angle_increment_]

\* --------------------------------------------------- the integration loop
\* size_t number_of_scan_steps = number_of_scan_points - 1 (unsigned)
ScanSteps(number_of_scan_points) == (number_of_scan_points - 1) % SizeModulus

\* (mutant) the range gate with the cutoffs included
InRangeWindowInclusive(point_range_value, min_range_cutoff, max_range_cutoff) ==
    /\ ~point_range_value.nan /\ ~min_range_cutoff.nan /\ ~max_range_cutoff.nan
    /\ point_range_value.v >= min_range_cutoff.v
    /\ point_range_value.v <= max_range_cutoff.v

\* line 134: the range gate
InRangeWindow(point_range_value, min_range_cutoff, max_range_cutoff) ==
    FGt(point_range_value, min_range_cutoff) /\ FLt(point_range_value, max_range_cutoff)

\* line 136: the projection of sample point_pos in the laser frame
ProjectedPoint(point_range_value, m, point_pos) ==
    Vector3(FMul(point_range_value, m.cos[point_pos + 1]),
            FMul(point_range_value, m.sin[point_pos + 1]), F(0))

\* lines 139-142: the pose of a sample; current_scan_percentage is
\* percentage / number_of_scan_steps
SamplePose(point_transform, collected_tfs, interpolate, percentage, number_of_scan_steps) ==
    IF Len(collected_tfs) >= 2 /\ interpolate
    THEN LET front == collected_tfs[1]
             back == collected_tfs[Len(collected_tfs)]
         IN [rot |-> slerp(front.rot, back.rot, percentage, number_of_scan_steps),
             origin |-> setInterpolate3(front.origin, back.origin, percentage, number_of_scan_steps)]
    ELSE point_transform

\* line 147
IsFinitePoint(p) == isfinite(p[1]) /\ isfinite(p[2]) /\ isfinite(p[3])

\* lines 149-152
IntensityOf(laser_scan, point_pos) ==
    IF point_pos < Len(laser_scan.intensities) THEN laser_scan.intensities[point_pos + 1] ELSE F(0)

\* (mutant) the percentage advances only with the samples that are kept
AdvancePercentageWhenKept(percentage, kept) == IF kept THEN percentage + 1 ELSE percentage

\* line 158: current_scan_percentage += one_scan_step_percentage, whether the
\* sample was kept or not
AdvancePercentage(percentage, kept) == percentage + 1

Callback(op, idx, point, intensity, transform) ==
    [op |-> op, idx |-> idx, point |-> point, intensity |-> intensity, transform |-> transform]

\* one iteration of the loop of lines 132-159 on the loop state
\* [point_transform, percentage, measurements]
LoopBody(laser_scan, m, collected_tfs, interpolate, lo, hi, steps, st, point_pos) ==
    LET point_range_value == laser_scan.ranges[point_pos + 1]
        inside == InRangeWindow(point_range_value, lo, hi)
        projected_point == ProjectedPoint(point_range_value, m, point_pos)
        pose == SamplePose(st.point_transform, collected_tfs, interpolate, st.percentage, steps)
        transformed_point == TransformPoint(pose, projected_point)
        kept == inside /\ IsFinitePoint(transformed_point)
    IN [point_transform |-> IF inside THEN pose ELSE st.point_transform,
        percentage |-> AdvancePercentage(st.percentage, kept),
        measurements |-> IF kept
                         THEN Append(st.measurements,
                                     Callback("addMeasurement", point_pos, transformed_point,
                                              IntensityOf(laser_scan, point_pos), pose))
                         ELSE st.measurements]

\* the loop of lines 132-159 (the loop state is evaluated once per iteration)
RECURSIVE ScanLoop(_, _, _, _, _, _, _, _, _)
ScanLoop(laser_scan, m, collected_tfs, interpolate, lo, hi, steps, st, point_pos) ==
    IF point_pos < Len(laser_scan.ranges)
    THEN CHOOSE done \in
           { ScanLoop(laser_scan, m, collected_tfs, interpolate, lo, hi, steps, next, point_pos + 1) :
               next \in {LoopBody(laser_scan, m, collected_tfs, interpolate, lo, hi, steps, st, point_pos)} } :
           TRUE
    ELSE st

\* (mutant) the scan is finished before its measurements are added
ScanCallbacksFinishFirst(number_of_scan_points, measurements) ==
    <<Callback("beginScan", number_of_scan_points, ZeroVector, F(0), Identity)>>
    \o <<Callback("finishScan", 0, ZeroVector, F(0), Identity)>>
    \o measurements

\* lines 131, 154 and 161: the sink callbacks of an integrated scan, in order
ScanCallbacks(number_of_scan_points, measurements) ==
    <<Callback("beginScan", number_of_scan_points, ZeroVector, F(0), Identity)>>
    \o measurements
    \o <<Callback("finishScan", 0, ZeroVector, F(0), Identity)>>

\* (mutant) the counter is set to the scan's count instead of growing by it
PointsAfterReset(points, measurements) == Len(measurements)

\* line 155: ++number_of_points_in_cloud_ with every addMeasureToPointCloud
PointsAfter(points, measurements) == points + Len(measurements)
\* line 162
ScansAfter(scans) == scans + 1

\* (mutant) the recovery transform multiplied on the right
RecoveredTransformRightMultiplied(recovery_to_target, tf) == TransformMul(tf, recovery_to_target)

\* lines 107-113: the poses of the recovery path, brought to the target frame
RecoveredTransform(recovery_to_target, tf) == TransformMul(recovery_to_target, tf)

\* ------------------------------------------------------------- integrate
\* (mutant) the sink is set up for the scan before the poses are known
IntegrateFailedAfterBeginScan(laser_scan, queries, recovery_to_target, refreshed) ==
    [ret |-> FALSE,
     callbacks |-> <<Callback("beginScan", Len(laser_scan.ranges), ZeroVector, F(0), Identity)>>,
     queries |-> queries, recovered |-> FALSE,
     returned_tfs |-> <<>>, refreshed |-> refreshed,
     recovery_to_target |-> recovery_to_target,
     cache |-> [ret |-> FALSE,
                matrix |-> polar_to_cartesian_matrix_,
                angle_min |-> polar_to_cartesian_matrix_angle_min_,
                angle_max |-> polar_to_cartesian_matrix_angle_max_,
                angle_increment |-> polar_to_cartesian_matrix_angle_increment_],
     points |-> number_of_points_in_cloud_,
     scans |-> number_of_scans_assembled_in_current_pointcloud_]

\* the result of a call that returns false (lines 92 and 104)
IntegrateFailed(laser_scan, queries, recovery_to_target, refreshed) ==
    [ret |-> FALSE, callbacks |-> <<>>, queries |-> queries, recovered |-> FALSE,
     returned_tfs |-> <<>>, refreshed |-> refreshed,
     recovery_to_target |-> recovery_to_target,
     cache |-> [ret |-> FALSE,
                matrix |-> polar_to_cartesian_matrix_,
                angle_min |-> polar_to_cartesian_matrix_angle_min_,
                angle_max |-> polar_to_cartesian_matrix_angle_max_,
                angle_increment |-> polar_to_cartesian_matrix_angle_increment_],
     points |-> number_of_points_in_cloud_,
     scans |-> number_of_scans_assembled_in_current_pointcloud_]

\* lines 161-163: the result of a call that returns true
IntegrateDone(laser_scan, queries, recovery_to_target, refreshed, recovered, returned_tfs, cache, measurements) ==
    [ret |-> TRUE,
     callbacks |-> ScanCallbacks(Len(laser_scan.ranges), measurements),
     queries |-> queries, recovered |-> recovered, returned_tfs |-> returned_tfs,
     refreshed |-> refreshed, recovery_to_target |-> recovery_to_target,
     cache |-> cache,
     points |-> PointsAfter(number_of_points_in_cloud_, measurements),
     scans |-> ScansAfter(number_of_scans_assembled_in_current_pointcloud_)]

\* lines 115-163: the scan is projected, transformed and handed to the sink
\* (the matrix update, the poses and the loop are each evaluated once)
IntegrateScan(laser_scan, queries, recovery_to_target, refreshed, recovered, returned_tfs, collected_tfs, point_transform) ==
    LET number_of_scan_steps == ScanSteps(Len(laser_scan.ranges))
        min_range_cutoff == FMul(laser_scan.range_min, F(min_range_cutoff_percentage_offset_))
        max_range_cutoff == FMul(laser_scan.range_max, F(max_range_cutoff_percentage_offset_))
    IN CHOOSE result \in UNION {
         { IntegrateDone(laser_scan, queries, recovery_to_target, refreshed, recovered,
                         returned_tfs, cache, done.measurements) :
             done \in { ScanLoop(laser_scan, cache.matrix, tfs, interpolate_scans_,
                                 lo, hi, number_of_scan_steps,
                                 [point_transform |-> IF Len(tfs) = 1 /\ interpolate_scans_
                                                      THEN tfs[1] ELSE point_transform,
                                  percentage |-> 0, measurements |-> <<>>], 0) } } :
           cache \in {updatePolarToCartesianProjectionMatrix(laser_scan)},
           tfs \in {collected_tfs}, lo \in {min_range_cutoff}, hi \in {max_range_cutoff} } : TRUE

\* lines 85-89 and 98-102: the pose query towards frame
PoseQuery(frame, laser_scan, scan_start_time, scan_middle_time, scan_end_time) ==
    IF interpolate_scans_
    THEN Query("collectTFs", frame, laser_scan.frame_id, scan_start_time, scan_end_time)
    ELSE Query("lookForTransform", frame, laser_scan.frame_id, scan_middle_time, scan_middle_time)

\* the poses a query's outcome leaves in (collected_tfs, point_transform)
PoseResult(outcome) ==
    IF interpolate_scans_
    THEN LET r == collectTFs(<<>>, outcome)
         IN [ok |-> r.ok, collected_tfs |-> r.tfs, point_transform |-> Identity]
    ELSE LET r == lookForTransform(Identity, outcome)
         IN [ok |-> r.ok, collected_tfs |-> <<>>, point_transform |-> r.transform]

\* integrateLaserScanWithShpericalLinearInterpolation; primary, refresh and
\* recovery are the outcomes of the pose queries of lines 86/88, 95 and 99/101
integrateLaserScanWithShpericalLinearInterpolation(laser_scan, primary, refresh, recovery) ==
    LET number_of_scan_points == Len(laser_scan.ranges)
        number_of_scan_steps == ScanSteps(number_of_scan_points)
        scan_duration == number_of_scan_steps * laser_scan.time_increment
        scan_start_time == laser_scan.stamp
        scan_end_time == scan_start_time + scan_duration
        scan_middle_time == scan_start_time + (scan_duration \div 2)
        q1 == PoseQuery(TargetFrame, laser_scan, scan_start_time, scan_middle_time, scan_end_time)
        r1 == PoseResult(primary)
        q2 == Query("lookForTransform", TargetFrame, recovery_frame_, 0, 0)
        r2 == lookForTransform(recovery_to_target_frame_transform_, refresh)
        q3 == PoseQuery(recovery_frame_, laser_scan, scan_start_time, scan_middle_time, scan_end_time)
        r3 == PoseResult(recovery)
    IN IF r1.ok
       THEN IntegrateScan(laser_scan, <<q1>>, recovery_to_target_frame_transform_, FALSE, FALSE,
                          primary, r1.collected_tfs, r1.point_transform)
       ELSE IF recovery_frame_ = ""
       THEN IntegrateFailed(laser_scan, <<q1>>, recovery_to_target_frame_transform_, FALSE)
       ELSE IF ~r3.ok
       THEN IntegrateFailed(laser_scan, <<q1, q2, q3>>, r2.transform, r2.ok)
       ELSE IntegrateScan(laser_scan, <<q1, q2, q3>>, r2.transform, r2.ok, TRUE, recovery,
                          [i \in 1..Len(r3.collected_tfs) |->
                              RecoveredTransform(r2.transform, r3.collected_tfs[i])],
                          RecoveredTransform(r2.transform, r3.point_transform))

\* the outcomes the pose provider can give to one call: the later queries are
\* made only when the primary one fails and a recovery frame is set
ProviderOutcomes(laser_scan) ==
    LET n == Len(laser_scan.ranges)
        first == IF interpolate_scans_ THEN SampleOutcomes(n) ELSE LookupOutcomes
        second == IF interpolate_scans_ THEN RecoverySampleOutcomes(n) ELSE RecoveryLookupOutcomes
    IN { <<p, <<>>, <<>>>> : p \in first \ {<<>>} }
       \cup (IF recovery_frame_ = ""
             THEN { <<<<>>, <<>>, <<>>>> }
             ELSE { <<<<>>, f, r>> : f \in RefreshOutcomes, r \in second })

\* ------------------------------------------------------------ the actions
\* Calls are made one after the other: a call begins when the caller has taken
\* the result of the one before (Return).
Integrate ==
    /\ last.op = "none"
    /\ number_of_scans_assembled_in_current_pointcloud_ < MaxScans
    /\ \E laser_scan \in LaserScans :
         \E o \in ProviderOutcomes(laser_scan) :
           \E r \in {integrateLaserScanWithShpericalLinearInterpolation(laser_scan, o[1], o[2], o[3])} :
              /\ polar_to_cartesian_matrix_' = r.cache.matrix
              /\ polar_to_cartesian_matrix_angle_min_' = r.cache.angle_min
              /\ polar_to_cartesian_matrix_angle_max_' = r.cache.angle_max
              /\ polar_to_cartesian_matrix_angle_increment_' = r.cache.angle_increment
              /\ number_of_points_in_cloud_' = r.points
              /\ number_of_scans_assembled_in_current_pointcloud_' = r.scans
              /\ recovery_to_target_frame_transform_' = r.recovery_to_target
              /\ last' = [op |-> "integrate", scan |-> laser_scan, ret |-> r.ret,
                          callbacks |-> r.callbacks, queries |-> r.queries,
                          recovered |-> r.recovered, returned_tfs |-> r.returned_tfs,
                          refreshed |-> r.refreshed,
                          stored_before |-> recovery_to_target_frame_transform_,
                          updated |-> r.cache.ret,
                          geometry_before |-> NoCall.geometry_before]
    /\ UNCHANGED <<interpolate_scans_, min_range_cutoff_percentage_offset_,
                   max_range_cutoff_percentage_offset_, number_of_pointclouds_created_,
                   recovery_frame_>>

\* a call of updatePolarToCartesianProjectionMatrix by the owner of the object
UpdateMatrix ==
    /\ last.op = "none"
    /\ \E laser_scan \in GeometryScans :
         \E r \in {updatePolarToCartesianProjectionMatrix(laser_scan)} :
           /\ polar_to_cartesian_matrix_' = r.matrix
           /\ polar_to_cartesian_matrix_angle_min_' = r.angle_min
           /\ polar_to_cartesian_matrix_angle_max_' = r.angle_max
           /\ polar_to_cartesian_matrix_angle_increment_' = r.angle_increment
           /\ last' = [NoCall EXCEPT !.op = "refresh", !.scan = laser_scan, !.ret = r.ret,
                                     !.updated = r.ret, !.geometry_before = CachedGeometry]
    /\ UNCHANGED <<interpolate_scans_, min_range_cutoff_percentage_offset_,
                   max_range_cutoff_percentage_offset_, number_of_pointclouds_created_,
                   number_of_points_in_cloud_,
                   number_of_scans_assembled_in_current_pointcloud_,
                   recovery_frame_, recovery_to_target_frame_transform_>>

\* setRecoveryFrame(recovery_frame, recovery_to_target_frame_transform)
SetRecoveryFrame ==
    \E recovery_frame \in RecoveryFrames :
      /\ last.op = "none"
      /\ recovery_frame_' = recovery_frame
      /\ recovery_to_target_frame_transform_' = RecoveryPose
      /\ last' = [NoCall EXCEPT !.op = "setRecoveryFrame"]
      /\ UNCHANGED <<interpolate_scans_, min_range_cutoff_percentage_offset_,
                     max_range_cutoff_percentage_offset_, polar_to_cartesian_matrix_,
                     polar_to_cartesian_matrix_angle_min_, polar_to_cartesian_matrix_angle_max_,
                     polar_to_cartesian_matrix_angle_increment_, number_of_pointclouds_created_,
                     number_of_points_in_cloud_,
                     number_of_scans_assembled_in_current_pointcloud_>>

\* the call has returned: its caller takes the result, the object is as the call
\* left it
Return ==
    /\ last.op # "none"
    /\ last' = NoCall
    /\ UNCHANGED <<interpolate_scans_, min_range_cutoff_percentage_offset_,
                   max_range_cutoff_percentage_offset_, polar_to_cartesian_matrix_,
                   polar_to_cartesian_matrix_angle_min_, polar_to_cartesian_matrix_angle_max_,
                   polar_to_cartesian_matrix_angle_increment_, number_of_pointclouds_created_,
                   number_of_points_in_cloud_,
                   number_of_scans_assembled_in_current_pointcloud_,
                   recovery_frame_, recovery_to_target_frame_transform_>>

Next == Integrate \/ UpdateMatrix \/ SetRecoveryFrame \/ Return

Spec == Init /\ [][Next]_vars

\* ------------------------------------------------- vocabulary of the claims
Integrated == last.op = "integrate" /\ last.ret
NumberOfScanPoints == Len(last.scan.ranges)
Measurements == { k \in 1..Len(last.callbacks) : last.callbacks[k].op = "addMeasurement" }
MeasurementsOf(i) == { k \in Measurements : last.callbacks[k].idx = i }

\* theta_i = theta_min + i * delta_theta of the last scan, and the sensor-frame
\* point (r_i cos(theta_i), r_i sin(theta_i), 0)
Theta(i) == last.scan.angle_min + i * last.scan.angle_increment
SensorPoint(i) ==
    Vector3(FMul(last.scan.ranges[i + 1], F(Cos(Theta(i)))),
            FMul(last.scan.ranges[i + 1], F(Sin(Theta(i)))), F(0))

\* the poses the last call obtained, in the target frame: T_recovery->target * T_r
\* on the recovery path
TargetPose(tf) ==
    IF last.recovered
    THEN TransformMul(recovery_to_target_frame_transform_, tf)
    ELSE tf
FirstPose == TargetPose(last.returned_tfs[1])
LastPose == TargetPose(last.returned_tfs[Len(last.returned_tfs)])
Interpolating == interpolate_scans_ /\ Len(last.returned_tfs) >= 2

\* the interpolation of p0 and p1 at the fraction i / (N - 1)
InterpolationAt(p0, p1, i) ==
    [rot |-> slerp(p0.rot, p1.rot, i, NumberOfScanPoints - 1),
     origin |-> setInterpolate3(p0.origin, p1.origin, i, NumberOfScanPoints - 1)]
\* the pose sample i is due
PoseOf(i) ==
    IF Interpolating THEN InterpolationAt(FirstPose, LastPose, i) ELSE FirstPose

\* r_min < r < r_max with r_min = r_min_sensor * min_cutoff_pct and
\* r_max = r_max_sensor * max_cutoff_pct
StrictlyInside(r) ==
    /\ ~r.nan
    /\ r.v > last.scan.range_min.v * min_range_cutoff_percentage_offset_
    /\ r.v < last.scan.range_max.v * max_range_cutoff_percentage_offset_

Counters == <<number_of_points_in_cloud_, number_of_scans_assembled_in_current_pointcloud_,
              number_of_pointclouds_created_>>

\* --------------------------------------------------------------- the claims
\* C1: an integrate call that returns false (the primary pose query failed and
\* either no recovery frame is set or the recovery query failed too) has issued
\* no sink callback and leaves points_in_cloud, scans_assembled and
\* clouds_created as they were before the call.
C1_FailedIntegrateLeavesNoTrace ==
    [][(last'.op = "integrate" /\ ~last'.ret) =>
         /\ last'.callbacks = <<>>
         /\ Counters' = Counters
         /\ \/ Len(last'.queries) = 1 /\ recovery_frame_ = ""
            \/ Len(last'.queries) = 3 /\ recovery_frame_ # ""]_vars

C1_Witness ==
    /\ last.op = "integrate" /\ ~last.ret
    /\ Len(last.queries) = 3
    /\ number_of_points_in_cloud_ > 0

\* C2: the sink callbacks of an integrate call that returns true are exactly
\* beginScan(N), then addMeasurement zero or more times, then finishScan; a call
\* that returns false issues none, whatever calls came before.
C2_CallbackOrder ==
    last.op = "integrate" =>
      IF last.ret
      THEN LET n == Len(last.callbacks)
           IN /\ n >= 2
              /\ last.callbacks[1].op = "beginScan"
              /\ last.callbacks[1].idx = NumberOfScanPoints
              /\ last.callbacks[n].op = "finishScan"
              /\ \A k \in 2..(n - 1) : last.callbacks[k].op = "addMeasurement"
      ELSE last.callbacks = <<>>

C2_Witness ==
    /\ Integrated
    /\ Len(last.callbacks) = 4
    /\ number_of_scans_assembled_in_current_pointcloud_ = 2

\* C3: with the pose provider returning the identity, every kept sample i of the
\* scan is emitted as (r_i cos(theta_i), r_i sin(theta_i), 0), theta_i being
\* computed from the angle_min and angle_increment of that scan.
C3_IdentityPoseProjection ==
    (/\ Integrated
     /\ ~last.recovered
     /\ \A j \in 1..Len(last.returned_tfs) : last.returned_tfs[j] = Identity)
    => \A k \in Measurements :
         last.callbacks[k].point = SensorPoint(last.callbacks[k].idx)

\* C4: the matrix update of a scan returns false and changes nothing exactly
\* when the cached geometry (N, theta_min, delta_theta) is the scan's already;
\* otherwise it rebuilds the table and returns true; either way the cached
\* geometry is the scan's afterwards and the cos and sin rows have N columns.
C4_CacheGeometryIsTheScans ==
    (last.op = "refresh" \/ Integrated) =>
      LET ScanGeometry == <<NumberOfScanPoints, F(last.scan.angle_min), last.scan.angle_increment>>
      IN /\ last.op = "refresh" =>
              /\ ~last.ret <=> last.geometry_before = ScanGeometry
              /\ ~last.ret => CachedGeometry = last.geometry_before
         /\ CachedGeometry = ScanGeometry
         /\ Len(polar_to_cartesian_matrix_.cos) = NumberOfScanPoints
         /\ Len(polar_to_cartesian_matrix_.sin) = NumberOfScanPoints

\* C5: in an integrate call that returns true, sample i is emitted exactly once
\* if r_min < r[i] < r_max and its transformed point is finite, and not at all
\* otherwise (so never when r[i] is r_min or r_max).
C5_EmittedIffInsideAndFinite ==
    Integrated =>
      \A i \in 0..(NumberOfScanPoints - 1) :
        Cardinality(MeasurementsOf(i)) =
          IF /\ StrictlyInside(last.scan.ranges[i + 1])
             /\ IsFinitePoint(TransformPoint(PoseOf(i),
                    Vector3(FMul(last.scan.ranges[i + 1], polar_to_cartesian_matrix_.cos[i + 1]),
                            FMul(last.scan.ranges[i + 1], polar_to_cartesian_matrix_.sin[i + 1]),
                            F(0))))
          THEN 1 ELSE 0

C5_Witness ==
    /\ Integrated
    /\ last.scan.ranges = <<F(4), F(3)>>
    /\ Cardinality(Measurements) = 1

\* C6: when the primary pose query fails and a recovery frame is set, integrate
\* looks up T_recovery->target (target_frame from recovery_frame), keeps the
\* stored one if that lookup fails, then queries the poses from the scan's frame
\* to recovery_frame; if they are found the call returns true and every emitted
\* point is T_recovery->target * T_r * p_sensor.
C6_RecoveryComposition ==
    (last.op = "integrate" /\ Len(last.queries) > 1) =>
      /\ Len(last.queries) = 3
      /\ last.queries[1].target = TargetFrame
      /\ last.queries[2] = Query("lookForTransform", TargetFrame, recovery_frame_, 0, 0)
      /\ last.queries[3].target = recovery_frame_
      /\ last.queries[3].source = last.scan.frame_id
      /\ last.queries[3].op = last.queries[1].op
      /\ ~last.refreshed => recovery_to_target_frame_transform_ = last.stored_before
      /\ last.ret = last.recovered
      /\ last.recovered =>
           \A k \in Measurements :
             LET i == last.callbacks[k].idx
                 T_r == IF Interpolating
                        THEN InterpolationAt(last.returned_tfs[1],
                                             last.returned_tfs[Len(last.returned_tfs)], i)
                        ELSE last.returned_tfs[1]
                 p_sensor == Vector3(FMul(last.scan.ranges[i + 1], polar_to_cartesian_matrix_.cos[i + 1]),
                                     FMul(last.scan.ranges[i + 1], polar_to_cartesian_matrix_.sin[i + 1]),
                                     F(0))
             IN last.callbacks[k].point =
                  TransformPoint(recovery_to_target_frame_transform_, TransformPoint(T_r, p_sensor))

C6_Witness ==
    /\ Integrated /\ last.recovered /\ ~last.refreshed
    /\ recovery_to_target_frame_transform_ = RefreshedRecoveryPose
    /\ Cardinality(Measurements) = 2

\* C7: points_in_cloud and scans_assembled never decrease; an integrate call that
\* returns true adds 1 to scans_assembled and the number of its addMeasurement
\* callbacks to points_in_cloud.
C7_CountersGrowWithTheScan ==
    [][/\ number_of_points_in_cloud_' >= number_of_points_in_cloud_
       /\ number_of_scans_assembled_in_current_pointcloud_' >=
            number_of_scans_assembled_in_current_pointcloud_
       /\ (last'.op = "integrate" /\ last'.ret) =>
            /\ number_of_scans_assembled_in_current_pointcloud_' =
                 number_of_scans_assembled_in_current_pointcloud_ + 1
            /\ number_of_points_in_cloud_' =
                 number_of_points_in_cloud_ + Cardinality(Measurements')]_vars

C7_Witness ==
    /\ Integrated
    /\ number_of_scans_assembled_in_current_pointcloud_ = 2
    /\ number_of_points_in_cloud_ = 3

\* C8: for a scan of fewer than 2 samples in interpolating mode the step count
\* N - 1 does not drive the pose query: the poses are asked for the one instant
\* of the scan, its stamp.
C8_DegenerateScanQueriesOneInstant ==
    (last.op = "integrate" /\ interpolate_scans_ /\ NumberOfScanPoints < 2) =>
      \A k \in 1..Len(last.queries) :
        last.queries[k].op = "collectTFs" =>
          /\ last.queries[k].from = last.scan.stamp
          /\ last.queries[k].to = last.scan.stamp

\* C9 as stated: on return of any integrate call, whatever it returns, the
\* projection cache has as many columns as the scan has ranges.
C9_CacheLengthAfterAnyIntegrate ==
    last.op = "integrate" => cols(polar_to_cartesian_matrix_) = NumberOfScanPoints

\* C9 amended: on return of an integrate call that returns true, the projection
\* cache has as many columns as the scan has ranges.
C9_CacheLengthAfterIntegratedScan ==
    Integrated =>
      /\ Len(polar_to_cartesian_matrix_.cos) = NumberOfScanPoints
      /\ Len(polar_to_cartesian_matrix_.sin) = NumberOfScanPoints

C9_Witness ==
    /\ Integrated
    /\ NumberOfScanPoints = 1
    /\ number_of_scans_assembled_in_current_pointcloud_ = 2
    /\ number_of_points_in_cloud_ = 3

\* C10: in interpolating mode with two poses and N >= 2, the pose applied to an
\* emitted sample i is the interpolation of the first and the last pose at
\* i / (N - 1), whichever earlier samples were dropped; sample 0 gets the first
\* pose and sample N - 1 the last.
C10_PoseFollowsSampleIndex ==
    (Integrated /\ Interpolating /\ NumberOfScanPoints >= 2) =>
      \A k \in Measurements :
        LET i == last.callbacks[k].idx
        IN /\ last.callbacks[k].transform = InterpolationAt(FirstPose, LastPose, i)
           /\ i = 0 => last.callbacks[k].transform = FirstPose
           /\ i = NumberOfScanPoints - 1 => last.callbacks[k].transform = LastPose
           /\ last.callbacks[k].point =
                TransformPoint(last.callbacks[k].transform,
                  Vector3(FMul(last.scan.ranges[i + 1], polar_to_cartesian_matrix_.cos[i + 1]),
                          FMul(last.scan.ranges[i + 1], polar_to_cartesian_matrix_.sin[i + 1]),
                          F(0)))

C10_Witness ==
    /\ Integrated /\ Interpolating
    /\ last.scan.ranges = <<F(2), F(3), F(3)>>
    /\ \E k \in Measurements :
         /\ last.callbacks[k].idx = 1
         /\ last.callbacks[k].transform # FirstPose
         /\ last.callbacks[k].transform # LastPose
    /\ \E k \in Measurements :
         last.callbacks[k].idx = 2 /\ last.callbacks[k].transform = LastPose
====
